---- MODULE Spec2Model ----
(***************************************************************************)
(* Model of the LayoutEditor component (src/unnamed/part_000): the scene   *)
(* (items, selection), the undo/redo history, the drag and crop            *)
(* interaction state, and the event handlers that change them.             *)
(*                                                                         *)
(* Every handler runs to completion against the values of the render it    *)
(* was created in, so a handler is one atomic action.  The one exception   *)
(* is the FileReader onload callback of handleFileChange, which runs later *)
(* with the values captured when the file was chosen.                      *)
(***************************************************************************)
EXTENDS Integers, Sequences, FiniteSets, TLC

\* ---------------------------------------------------------------- bounds
\* The handlers below are unbounded; each specification caps the history
\* length, the number of ids drawn, the reads in flight and the drag range
\* of the steps it takes.
MaxHistory == 3
MaxIds == 2
MaxCoord == 50
ImportMaxHistory == 3
ImportMaxIds == 2
ImportMaxPending == 1
DeleteMaxHistory == 4
DeleteMaxIds == 2
PanelMaxHistory == 4
PanelMaxIds == 2
CropMaxHistory == 3
CropMaxIds == 1
CropMaxPoints == 1
InsetsMaxHistory == 3
InsetsMaxIds == 1
LassoMaxHistory == 3
LassoMaxIds == 1
LassoMaxPoints == 3
RecropMaxHistory == 4
RecropMaxIds == 2
RecropMaxPoints == 3
SnapMaxHistory == 5
SnapMaxIds == 3
MagnetMaxHistory == 4
MagnetMaxIds == 2
SceneMaxHistory == 4
SceneMaxIds == 3
ReadsMaxHistory == 3
ReadsMaxIds == 2
ReadsMaxPending == 1
GestureMaxHistory == 4
GestureMaxIds == 2
GestureMaxPending == 1
ChainMaxHistory == 4
ChainMaxIds == 2

\* ------------------------------------------------------ program constants
SNAP_THRESHOLD == 10

\* ---------------------------------------------------------- input domains
NULL == 0
NONE == "none"
\* the pointer grabs an item at GrabXs and moves to MoveXs (e.clientX), at
\* height PointerYs (e.clientY): an item at x = 50 is dragged to x = 0
GrabXs == {100}
MoveXs == {50}
PointerYs == {50}
\* where a drag grabs an item, as an offset from its corner, and the pointer
\* positions of the drag frames: within the threshold of the canvas origin
\* on one axis, at two places within the threshold of each other, one of
\* them within the threshold of the first, and within the threshold of the
\* place where new items appear
SnapGrabs == {<<0, 0>>}
SnapMoves == {<<5, 50>>, <<12, 50>>, <<17, 50>>, <<45, 5>>}
\* the pointer position of the drag frames while the Magnet button is used:
\* within the threshold of the canvas origin on both axes
MagnetMoves == {<<5, 5>>}
\* a drag that grabs an item 10 to the right of its corner, and the pointer
\* positions of its frames: they put the corner 5 left of the canvas origin,
\* 5 right of it, and 17 right of it
ChainGrabs == {<<10, 0>>}
ChainMoves == {<<5, 50>>, <<15, 50>>, <<27, 50>>}
AssetKinds == {"image", "text", "video"}
ShapeKinds == {"rectangle", "circle", "line"}
PanelEdits == {<<"rotation", 45>>, <<"x", 0>>}
\* the inputs of the property panel (lines 551-692): the field, a value, and
\* the item types the input is rendered for
AllTypes == {"image", "text", "shape"}
PanelInputs == {<<"x", 7, AllTypes>>, <<"y", 9, AllTypes>>,
                <<"width", 120, AllTypes>>, <<"height", 80, AllTypes>>,
                <<"rotation", 45, AllTypes>>, <<"zIndex", 5, AllTypes>>,
                <<"borderRadius", 20, AllTypes>>,
                <<"color", "#ff0000", {"shape"}>>,
                <<"content", "hello", {"text"}>>}
CropSides == {"t", "r", "b", "l"}
CropTools == {"rect", "lasso"}
\* moves of the inset sliders (type="range" min="0" max="50", line 670): the
\* side and the value
CropAdjusts == {<<"t", 10>>, <<"r", 50>>, <<"b", 10>>, <<"l", 50>>}
\* clicks on the image being cropped, as percentages of its box (lines 320-322)
LassoClicks == {<<10, 10>>}
\* a click on a button of the crop toolbar, which sits above the box
\* (-top-12, line 487), as percentages of the box
ToolbarClicks == {<<5, -12>>}

VARIABLES
  items,            \* LayoutItem[]        (line 17)
  selectedItemId,   \* string | null       (line 18)
  history,          \* LayoutItem[][]      (line 21)
  historyIndex,     \* number, 0-based     (line 22)
  isDragging,       \* boolean             (line 25)
  dragOffset,       \* {x, y}              (line 26)
  snappingEnabled,  \* boolean             (line 27)
  snapGuides,       \* {type, pos}[]       (line 28)
  cropModeItem,     \* string | null       (line 31)
  cropToolType,     \* 'rect' | 'lasso'    (line 32)
  cropRect,         \* {t, r, b, l}        (line 33)
  lassoPoints,      \* {x, y}[]            (line 34)
  pendingReads,     \* FileReader reads in flight, each with the render values its onload closure captured
  randomDraws,      \* number of ids drawn from Math.random so far
  lastOp,           \* observer: the handler that ran in the last step and whether its guard passed
  undoMark,         \* observer: the state before the last undo, kept while a redo follows it directly
  editMark,         \* observer: the state before the last delete or crop apply, kept while an undo follows it directly
  commits,          \* observer: recordHistory calls since Init, while no undo or redo has run
  cancelMark,       \* observer: 1 after a crop with working data was cancelled, 2 once the next crop starts right after it
  dragFrame,        \* observer: the raw candidate (pointer minus offset) of the drag frame of the last step
  dragItem          \* observer: the item the last pointer down grabbed, until the next pointer up

progVars == <<items, selectedItemId, history, historyIndex, isDragging, dragOffset,
              snappingEnabled, snapGuides, cropModeItem, cropToolType, cropRect,
              lassoPoints, pendingReads, randomDraws>>
vars == <<items, selectedItemId, history, historyIndex, isDragging, dragOffset,
          snappingEnabled, snapGuides, cropModeItem, cropToolType, cropRect,
          lassoPoints, pendingReads, randomDraws, lastOp, undoMark, editMark, commits,
          cancelMark, dragFrame, dragItem>>

\* ------------------------------------------------------------- helpers
Abs(n) == IF n < 0 THEN 0 - n ELSE n

\* history[i] with the code's 0-based index
At(h, i) == h[i + 1]

\* Array.prototype.slice(0, n)
Slice(s, n) == SubSeq(s, 1, n)

\* Array.prototype.find by id: the first item with that id, or none
HasItem(its, id) == \E k \in 1..Len(its) : its[k].id = id
FindItem(its, id) == its[CHOOSE k \in 1..Len(its) : its[k].id = id /\ \A j \in 1..(k - 1) : its[j].id # id]

\* the filter with its test inverted: keeps the item it should drop
RECURSIVE FilterOutInverted(_, _)
FilterOutInverted(its, id) ==
  IF its = <<>> THEN <<>>
  ELSE IF Head(its).id # id THEN FilterOutInverted(Tail(its), id)
       ELSE <<Head(its)>> \o FilterOutInverted(Tail(its), id)

\* items.filter(i => i.id !== id)
RECURSIVE FilterOut(_, _)
FilterOut(its, id) ==
  IF its = <<>> THEN <<>>
  ELSE IF Head(its).id = id THEN FilterOut(Tail(its), id)
       ELSE <<Head(its)>> \o FilterOut(Tail(its), id)

\* the map without its id test: every item gets the value
SetFieldOfAll(its, id, prop, value) ==
  [k \in 1..Len(its) |-> [its[k] EXCEPT ![prop] = value]]

\* items.map(item => item.id === id ? { ...item, [prop]: value } : item)
SetField(its, id, prop, value) ==
  [k \in 1..Len(its) |-> IF its[k].id = id THEN [its[k] EXCEPT ![prop] = value] ELSE its[k]]

\* the LayoutItem literal of addToCanvas / addText / addShape
LayoutItem(id, type, shapeType, content, x, y, width, height, zIndex, borderRadius, color) ==
  [id |-> id, type |-> type, shapeType |-> shapeType, content |-> content,
   x |-> x, y |-> y, width |-> width, height |-> height, zIndex |-> zIndex,
   rotation |-> 0, borderRadius |-> borderRadius, color |-> color,
   style |-> [clipPath |-> ""]]

\* ids cut so short that every second draw repeats the one before
FreshIdTruncated == (randomDraws \div 2) + 1

\* Math.random().toString(36).substr(2, 9): the next draw of the random stream
FreshId == randomDraws + 1

\* ------------------------------------------------------------ observers
NoMark == [op |-> NONE, age |-> 0, items |-> <<>>, selectedItemId |-> NULL,
           history |-> <<>>, historyIndex |-> 0]
NoFrame == [on |-> FALSE, x |-> 0, y |-> 0]
Before(op) == [op |-> op, age |-> 1, items |-> items, selectedItemId |-> selectedItemId,
               history |-> history, historyIndex |-> historyIndex]

\* Bookkeeping of one step: which handler ran, whether its guard passed
\* (fired) and whether it called recordHistory (committed).  A handler whose
\* guard fails changes nothing; that call is a step of its own (fired =
\* FALSE) for handleUndo, handleRedo, handleDelete, handleMouseDown and
\* handleCropClick, and is left out as a stuttering step for the others.
LogGrab(name, fired, committed, frame, grabbed) ==
  /\ dragFrame' = frame
  /\ dragItem' = grabbed
  /\ lastOp' = [name |-> name, fired |-> fired, committed |-> committed]
  /\ undoMark' = IF fired /\ name = "handleUndo" THEN Before(name)
                 ELSE IF fired /\ name = "handleRedo" /\ undoMark.age = 1
                      THEN [undoMark EXCEPT !.age = 2]
                      ELSE NoMark
  /\ editMark' = IF fired /\ name \in {"handleDelete", "applyCrop"} THEN Before(name)
                 ELSE IF fired /\ name = "handleUndo" /\ editMark.age = 1
                      THEN [editMark EXCEPT !.age = 2]
                      ELSE NoMark
  /\ commits' = IF fired /\ name \in {"handleUndo", "handleRedo"} THEN [n |-> 0, clean |-> FALSE]
                ELSE IF commits.clean /\ committed THEN [commits EXCEPT !.n = commits.n + 1]
                ELSE commits
  /\ cancelMark' = IF name = "cancelCrop"
                       /\ (cropRect # [t |-> 0, r |-> 0, b |-> 0, l |-> 0] \/ lassoPoints # <<>>)
                    THEN 1
                    ELSE IF name = "startCrop" /\ cancelMark = 1 THEN 2 ELSE 0

LogFrame(name, fired, committed, frame) ==
  LogGrab(name, fired, committed, frame, IF name = "handleMouseUp" THEN NULL ELSE dragItem)

Log(name, fired, committed) == LogFrame(name, fired, committed, NoFrame)

\* ------------------------------------------------------------ the renders
\* The values a handler closes over: those of the render that created it.
Render == [items |-> items, history |-> history, historyIndex |-> historyIndex]

\* ------------------------------------------------- history management
\* recordHistory pushing the items of the render instead of its argument
recordHistoryStale(r, newItems) ==
  LET newHistory == Append(Slice(r.history, r.historyIndex + 1), r.items)
  IN /\ history' = newHistory
     /\ historyIndex' = Len(newHistory) - 1

\* recordHistory setting the cursor to the length of the new history
recordHistoryCursorIsLength(r, newItems) ==
  LET newHistory == Append(Slice(r.history, r.historyIndex + 1), newItems)
  IN /\ history' = newHistory
     /\ historyIndex' = Len(newHistory)

recordHistory(r, newItems) ==
  LET newHistory == Append(Slice(r.history, r.historyIndex + 1), newItems)
  IN /\ history' = newHistory
     /\ historyIndex' = Len(newHistory) - 1

updateItems(r, newItems, record) ==
  /\ items' = newItems
  /\ IF record THEN recordHistory(r, newItems) ELSE UNCHANGED <<history, historyIndex>>

\* handleUndo staying in crop mode
handleUndoKeepsCrop ==
  IF historyIndex > 0
  THEN /\ historyIndex' = historyIndex - 1
       /\ items' = At(history, historyIndex - 1)
       /\ UNCHANGED <<selectedItemId, history, isDragging, dragOffset, snappingEnabled,
                      snapGuides, cropModeItem, cropToolType, cropRect, lassoPoints,
                      pendingReads, randomDraws>>
       /\ Log("handleUndo", TRUE, FALSE)
  ELSE UNCHANGED progVars /\ Log("handleUndo", FALSE, FALSE)

handleUndo ==
  IF historyIndex > 0
  THEN /\ historyIndex' = historyIndex - 1
       /\ items' = At(history, historyIndex - 1)
       /\ cropModeItem' = NULL
       /\ UNCHANGED <<selectedItemId, history, isDragging, dragOffset, snappingEnabled,
                      snapGuides, cropToolType, cropRect, lassoPoints, pendingReads, randomDraws>>
       /\ Log("handleUndo", TRUE, FALSE)
  ELSE UNCHANGED progVars /\ Log("handleUndo", FALSE, FALSE)

\* handleRedo leaving crop mode outside its guard
handleRedoAlwaysExitsCrop ==
  IF historyIndex < Len(history) - 1
  THEN /\ historyIndex' = historyIndex + 1
       /\ items' = At(history, historyIndex + 1)
       /\ cropModeItem' = NULL
       /\ UNCHANGED <<selectedItemId, history, isDragging, dragOffset, snappingEnabled,
                      snapGuides, cropToolType, cropRect, lassoPoints, pendingReads, randomDraws>>
       /\ Log("handleRedo", TRUE, FALSE)
  ELSE /\ cropModeItem' = NULL
       /\ UNCHANGED <<items, selectedItemId, history, historyIndex, isDragging, dragOffset,
                      snappingEnabled, snapGuides, cropToolType, cropRect, lassoPoints,
                      pendingReads, randomDraws>>
       /\ Log("handleRedo", FALSE, FALSE)

\* handleRedo moving the cursor but showing the entry it came from
handleRedoStaleItems ==
  IF historyIndex < Len(history) - 1
  THEN /\ historyIndex' = historyIndex + 1
       /\ items' = At(history, historyIndex)
       /\ cropModeItem' = NULL
       /\ UNCHANGED <<selectedItemId, history, isDragging, dragOffset, snappingEnabled,
                      snapGuides, cropToolType, cropRect, lassoPoints, pendingReads, randomDraws>>
       /\ Log("handleRedo", TRUE, FALSE)
  ELSE UNCHANGED progVars /\ Log("handleRedo", FALSE, FALSE)

handleRedo ==
  IF historyIndex < Len(history) - 1
  THEN /\ historyIndex' = historyIndex + 1
       /\ items' = At(history, historyIndex + 1)
       /\ cropModeItem' = NULL
       /\ UNCHANGED <<selectedItemId, history, isDragging, dragOffset, snappingEnabled,
                      snapGuides, cropToolType, cropRect, lassoPoints, pendingReads, randomDraws>>
       /\ Log("handleRedo", TRUE, FALSE)
  ELSE UNCHANGED progVars /\ Log("handleRedo", FALSE, FALSE)

\* ------------------------------------------------------ item management
AssetContent(kind) == kind \o "-content"

\* addToCanvas run by a handler of render r
addToCanvas(r, assetType, assetContent) ==
  LET newItem == LayoutItem(FreshId,
                            IF assetType = "text" THEN "text" ELSE "image",
                            NONE, assetContent, 50, 50,
                            IF assetType = "image" THEN 300 ELSE 200,
                            IF assetType = "image" THEN 300 ELSE 100,
                            Len(r.items) + 1, 0, NONE)
      newItems == Append(r.items, newItem)
  IN /\ updateItems(r, newItems, TRUE)
     /\ selectedItemId' = newItem.id
     /\ randomDraws' = randomDraws + 1

\* a click on an asset of the library
clickAsset(assetType) ==
  /\ addToCanvas(Render, assetType, AssetContent(assetType))
  /\ UNCHANGED <<isDragging, dragOffset, snappingEnabled, snapGuides, cropModeItem,
                 cropToolType, cropRect, lassoPoints, pendingReads>>
  /\ Log("addToCanvas", TRUE, TRUE)

\* addText putting the new item first
addTextPrepends ==
  /\ LET newItem == LayoutItem(FreshId, "text", NONE, "Double click to edit",
                               100, 100, 200, 60, Len(items) + 1, 0, NONE)
         newItems == <<newItem>> \o items
     IN /\ updateItems(Render, newItems, TRUE)
        /\ selectedItemId' = newItem.id
  /\ randomDraws' = randomDraws + 1
  /\ UNCHANGED <<isDragging, dragOffset, snappingEnabled, snapGuides, cropModeItem,
                 cropToolType, cropRect, lassoPoints, pendingReads>>
  /\ Log("addText", TRUE, TRUE)

addText ==
  /\ LET newItem == LayoutItem(FreshId, "text", NONE, "Double click to edit",
                               100, 100, 200, 60, Len(items) + 1, 0, NONE)
         newItems == Append(items, newItem)
     IN /\ updateItems(Render, newItems, TRUE)
        /\ selectedItemId' = newItem.id
  /\ randomDraws' = randomDraws + 1
  /\ UNCHANGED <<isDragging, dragOffset, snappingEnabled, snapGuides, cropModeItem,
                 cropToolType, cropRect, lassoPoints, pendingReads>>
  /\ Log("addText", TRUE, TRUE)

addShape(shapeType) ==
  /\ LET newItem == LayoutItem(FreshId, "shape", shapeType, "", 150, 150,
                               IF shapeType = "line" THEN 200 ELSE 100,
                               IF shapeType = "line" THEN 4 ELSE 100,
                               Len(items) + 1,
                               IF shapeType = "circle" THEN 50 ELSE 0,
                               "#4f46e5")
         newItems == Append(items, newItem)
     IN /\ updateItems(Render, newItems, TRUE)
        /\ selectedItemId' = newItem.id
  /\ randomDraws' = randomDraws + 1
  /\ UNCHANGED <<isDragging, dragOffset, snappingEnabled, snapGuides, cropModeItem,
                 cropToolType, cropRect, lassoPoints, pendingReads>>
  /\ Log("addShape", TRUE, TRUE)

\* handleDelete without its selection guard
handleDeleteUnguarded ==
  /\ updateItems(Render, FilterOut(items, selectedItemId), TRUE)
  /\ selectedItemId' = NULL
  /\ UNCHANGED <<isDragging, dragOffset, snappingEnabled, snapGuides, cropModeItem,
                 cropToolType, cropRect, lassoPoints, pendingReads, randomDraws>>
  /\ Log("handleDelete", selectedItemId # NULL, TRUE)

handleDelete ==
  IF selectedItemId # NULL
  THEN /\ updateItems(Render, FilterOut(items, selectedItemId), TRUE)
       /\ selectedItemId' = NULL
       /\ UNCHANGED <<isDragging, dragOffset, snappingEnabled, snapGuides, cropModeItem,
                      cropToolType, cropRect, lassoPoints, pendingReads, randomDraws>>
       /\ Log("handleDelete", TRUE, TRUE)
  ELSE UNCHANGED progVars /\ Log("handleDelete", FALSE, FALSE)

handlePropertyChange(prop, value) ==
  /\ selectedItemId # NULL
  /\ updateItems(Render, SetField(items, selectedItemId, prop, value), TRUE)
  /\ UNCHANGED <<selectedItemId, isDragging, dragOffset, snappingEnabled, snapGuides,
                 cropModeItem, cropToolType, cropRect, lassoPoints, pendingReads, randomDraws>>
  /\ Log("handlePropertyChange", TRUE, TRUE)

\* ----------------------------------------------------------------- import
\* handleFileChange: a file was chosen; the read starts and its onload
\* closure keeps the values of this render.
handleFileChange ==
  /\ pendingReads' = Append(pendingReads, Render)
  /\ UNCHANGED <<items, selectedItemId, history, historyIndex, isDragging, dragOffset,
                 snappingEnabled, snapGuides, cropModeItem, cropToolType, cropRect,
                 lassoPoints, randomDraws>>
  /\ Log("handleFileChange", TRUE, FALSE)

\* reader.onload of the k-th read in flight
readerOnload(k) ==
  /\ addToCanvas(pendingReads[k], "image", "data:image")
  /\ pendingReads' = [j \in 1..(Len(pendingReads) - 1) |->
                        IF j < k THEN pendingReads[j] ELSE pendingReads[j + 1]]
  /\ UNCHANGED <<isDragging, dragOffset, snappingEnabled, snapGuides, cropModeItem,
                 cropToolType, cropRect, lassoPoints>>
  /\ Log("readerOnload", TRUE, TRUE)

\* ---------------------------------------------------- snapping & dragging
\* handleMouseDown without its first line (the return while cropping)
handleMouseDownWhileCropping(id, clientX, clientY) ==
  /\ HasItem(items, id)
  /\ selectedItemId' = id
  /\ isDragging' = TRUE
  /\ dragOffset' = [x |-> clientX - FindItem(items, id).x,
                    y |-> clientY - FindItem(items, id).y]
  /\ UNCHANGED <<items, history, historyIndex, snappingEnabled, snapGuides, cropModeItem,
                 cropToolType, cropRect, lassoPoints, pendingReads, randomDraws>>
  /\ LogGrab("handleMouseDown", TRUE, FALSE, NoFrame, id)

handleMouseDown(id, clientX, clientY) ==
  IF cropModeItem = NULL
  THEN /\ HasItem(items, id)
       /\ selectedItemId' = id
       /\ isDragging' = TRUE
       /\ dragOffset' = [x |-> clientX - FindItem(items, id).x,
                         y |-> clientY - FindItem(items, id).y]
       /\ UNCHANGED <<items, history, historyIndex, snappingEnabled, snapGuides, cropModeItem,
                      cropToolType, cropRect, lassoPoints, pendingReads, randomDraws>>
       /\ LogGrab("handleMouseDown", TRUE, FALSE, NoFrame, id)
  ELSE UNCHANGED progVars /\ Log("handleMouseDown", FALSE, FALSE)

\* the origin snap recording its guides where the candidate was
SnapToOriginGuidesAtCandidate(newX, newY) ==
  LET gx == IF Abs(newX) < SNAP_THRESHOLD THEN <<[type |-> "x", pos |-> newX]>> ELSE <<>>
      gy == IF Abs(newY) < SNAP_THRESHOLD THEN <<[type |-> "y", pos |-> newY]>> ELSE <<>>
  IN [x |-> IF Abs(newX) < SNAP_THRESHOLD THEN 0 ELSE newX,
      y |-> IF Abs(newY) < SNAP_THRESHOLD THEN 0 ELSE newY,
      guides |-> gx \o gy]

\* the origin snap recording no guide
SnapToOriginNoGuides(newX, newY) ==
  [x |-> IF Abs(newX) < SNAP_THRESHOLD THEN 0 ELSE newX,
   y |-> IF Abs(newY) < SNAP_THRESHOLD THEN 0 ELSE newY,
   guides |-> <<>>]

\* lines 240 and 243: the canvas origin
SnapToOrigin(newX, newY) ==
  LET gx == IF Abs(newX) < SNAP_THRESHOLD THEN <<[type |-> "x", pos |-> 0]>> ELSE <<>>
      gy == IF Abs(newY) < SNAP_THRESHOLD THEN <<[type |-> "y", pos |-> 0]>> ELSE <<>>
  IN [x |-> IF Abs(newX) < SNAP_THRESHOLD THEN 0 ELSE newX,
      y |-> IF Abs(newY) < SNAP_THRESHOLD THEN 0 ELSE newY,
      guides |-> gx \o gy]

\* the item snap recording its guides without moving the candidate
RECURSIVE SnapToItemsGuidesOnly(_, _, _)
SnapToItemsGuidesOnly(its, selId, acc) ==
  IF its = <<>> THEN acc
  ELSE LET other == Head(its)
           gx == IF Abs(acc.x - other.x) < SNAP_THRESHOLD
                 THEN <<[type |-> "x", pos |-> other.x]>> ELSE <<>>
           gy == IF Abs(acc.y - other.y) < SNAP_THRESHOLD
                 THEN <<[type |-> "y", pos |-> other.y]>> ELSE <<>>
       IN IF other.id = selId THEN SnapToItemsGuidesOnly(Tail(its), selId, acc)
          ELSE SnapToItemsGuidesOnly(Tail(its), selId,
                                     [acc EXCEPT !.guides = acc.guides \o gx \o gy])

\* the item snap reaching twice as far as the origin snap
RECURSIVE SnapToItemsTwiceAsFar(_, _, _)
SnapToItemsTwiceAsFar(its, selId, acc) ==
  IF its = <<>> THEN acc
  ELSE LET other == Head(its)
           hitX == Abs(acc.x - other.x) < 2 * SNAP_THRESHOLD
           hitY == Abs(acc.y - other.y) < 2 * SNAP_THRESHOLD
           gx == IF hitX THEN <<[type |-> "x", pos |-> other.x]>> ELSE <<>>
           gy == IF hitY THEN <<[type |-> "y", pos |-> other.y]>> ELSE <<>>
       IN IF other.id = selId THEN SnapToItemsTwiceAsFar(Tail(its), selId, acc)
          ELSE SnapToItemsTwiceAsFar(Tail(its), selId,
                                     [x |-> IF hitX THEN other.x ELSE acc.x,
                                      y |-> IF hitY THEN other.y ELSE acc.y,
                                      guides |-> acc.guides \o gx \o gy])

\* the item snap without the return for the dragged item itself
RECURSIVE SnapToItemsWithSelf(_, _, _)
SnapToItemsWithSelf(its, selId, acc) ==
  IF its = <<>> THEN acc
  ELSE LET other == Head(its)
           hitX == Abs(acc.x - other.x) < SNAP_THRESHOLD
           hitY == Abs(acc.y - other.y) < SNAP_THRESHOLD
           gx == IF hitX THEN <<[type |-> "x", pos |-> other.x]>> ELSE <<>>
           gy == IF hitY THEN <<[type |-> "y", pos |-> other.y]>> ELSE <<>>
       IN SnapToItemsWithSelf(Tail(its), selId,
                              [x |-> IF hitX THEN other.x ELSE acc.x,
                               y |-> IF hitY THEN other.y ELSE acc.y,
                               guides |-> acc.guides \o gx \o gy])

\* lines 248-261: items.forEach over the other items, in scene order
RECURSIVE SnapToItems(_, _, _)
SnapToItems(its, selId, acc) ==
  IF its = <<>> THEN acc
  ELSE LET other == Head(its)
           hitX == Abs(acc.x - other.x) < SNAP_THRESHOLD
           hitY == Abs(acc.y - other.y) < SNAP_THRESHOLD
           gx == IF hitX THEN <<[type |-> "x", pos |-> other.x]>> ELSE <<>>
           gy == IF hitY THEN <<[type |-> "y", pos |-> other.y]>> ELSE <<>>
       IN IF other.id = selId THEN SnapToItems(Tail(its), selId, acc)
          ELSE SnapToItems(Tail(its), selId,
                           [x |-> IF hitX THEN other.x ELSE acc.x,
                            y |-> IF hitY THEN other.y ELSE acc.y,
                            guides |-> acc.guides \o gx \o gy])

\* the drag frame snapping whatever the Magnet switch says
SnapAlways(its, selId, snapping, newX, newY) ==
  IF HasItem(its, selId) THEN SnapToItems(its, selId, SnapToOrigin(newX, newY))
  ELSE SnapToOrigin(newX, newY)

\* lines 230-263: the position and the guides of one drag frame
Snap(its, selId, snapping, newX, newY) ==
  IF ~snapping THEN [x |-> newX, y |-> newY, guides |-> <<>>]
  ELSE IF HasItem(its, selId) THEN SnapToItems(its, selId, SnapToOrigin(newX, newY))
       ELSE SnapToOrigin(newX, newY)

\* items.map(item => item.id === id ? { ...item, x, y } : item)
MoveItem(its, id, newX, newY) ==
  [k \in 1..Len(its) |-> IF its[k].id = id THEN [its[k] EXCEPT !.x = newX, !.y = newY] ELSE its[k]]

\* handleMouseMove committing every frame
handleMouseMoveCommits(clientX, clientY) ==
  /\ isDragging /\ selectedItemId # NULL /\ cropModeItem = NULL
  /\ LET newX == clientX - dragOffset.x
         newY == clientY - dragOffset.y
         s == Snap(items, selectedItemId, snappingEnabled, newX, newY)
     IN /\ snapGuides' = s.guides
        /\ updateItems(Render, MoveItem(items, selectedItemId, s.x, s.y), TRUE)
        /\ LogFrame("handleMouseMove", TRUE, TRUE, [on |-> TRUE, x |-> newX, y |-> newY])
  /\ UNCHANGED <<selectedItemId, isDragging, dragOffset,
                 snappingEnabled, cropModeItem, cropToolType, cropRect, lassoPoints,
                 pendingReads, randomDraws>>

handleMouseMove(clientX, clientY) ==
  /\ isDragging /\ selectedItemId # NULL /\ cropModeItem = NULL
  /\ LET newX == clientX - dragOffset.x
         newY == clientY - dragOffset.y
         s == Snap(items, selectedItemId, snappingEnabled, newX, newY)
     IN /\ snapGuides' = s.guides
        /\ items' = MoveItem(items, selectedItemId, s.x, s.y)
        /\ LogFrame("handleMouseMove", TRUE, FALSE, [on |-> TRUE, x |-> newX, y |-> newY])
  /\ UNCHANGED <<selectedItemId, history, historyIndex, isDragging, dragOffset,
                 snappingEnabled, cropModeItem, cropToolType, cropRect, lassoPoints,
                 pendingReads, randomDraws>>

\* handleMouseUp leaving the guides of the last frame
handleMouseUpKeepsGuides ==
  /\ isDragging
  /\ isDragging' = FALSE
  /\ recordHistory(Render, items)
  /\ UNCHANGED <<items, selectedItemId, dragOffset, snappingEnabled, snapGuides, cropModeItem,
                 cropToolType, cropRect, lassoPoints, pendingReads, randomDraws>>
  /\ Log("handleMouseUp", TRUE, TRUE)

handleMouseUp ==
  /\ isDragging
  /\ isDragging' = FALSE
  /\ snapGuides' = <<>>
  /\ recordHistory(Render, items)
  /\ UNCHANGED <<items, selectedItemId, dragOffset, snappingEnabled, cropModeItem,
                 cropToolType, cropRect, lassoPoints, pendingReads, randomDraws>>
  /\ Log("handleMouseUp", TRUE, TRUE)

\* the Magnet button, line 402
toggleSnapping ==
  /\ snappingEnabled' = ~snappingEnabled
  /\ UNCHANGED <<items, selectedItemId, history, historyIndex, isDragging, dragOffset,
                 snapGuides, cropModeItem, cropToolType, cropRect, lassoPoints,
                 pendingReads, randomDraws>>
  /\ Log("toggleSnapping", TRUE, FALSE)

\* -------------------------------------------------------------- crop logic
\* startCrop without its two resets of the working data
startCropKeepsWork ==
  /\ selectedItemId # NULL
  /\ cropModeItem' = selectedItemId
  /\ cropToolType' = "rect"
  /\ UNCHANGED <<items, selectedItemId, history, historyIndex, isDragging, dragOffset,
                 snappingEnabled, snapGuides, cropRect, lassoPoints, pendingReads, randomDraws>>
  /\ Log("startCrop", TRUE, FALSE)

startCrop ==
  /\ selectedItemId # NULL
  /\ cropModeItem' = selectedItemId
  /\ cropToolType' = "rect"
  /\ cropRect' = [t |-> 0, r |-> 0, b |-> 0, l |-> 0]
  /\ lassoPoints' = <<>>
  /\ UNCHANGED <<items, selectedItemId, history, historyIndex, isDragging, dragOffset,
                 snappingEnabled, snapGuides, pendingReads, randomDraws>>
  /\ Log("startCrop", TRUE, FALSE)

\* the points joined last to first
RECURSIVE PointsStrReversed(_)
PointsStrReversed(points) ==
  IF points = <<>> THEN ""
  ELSE (IF Tail(points) = <<>> THEN "" ELSE PointsStrReversed(Tail(points)) \o ", ")
       \o ToString(Head(points).x) \o "% " \o ToString(Head(points).y) \o "%"

\* `${p.x}% ${p.y}%` joined by ', '
RECURSIVE PointsStr(_)
PointsStr(points) ==
  IF points = <<>> THEN ""
  ELSE ToString(Head(points).x) \o "% " \o ToString(Head(points).y) \o "%"
       \o (IF Tail(points) = <<>> THEN "" ELSE ", " \o PointsStr(Tail(points)))

\* the inset descriptor with the right and left insets in each other's place
ClipPathSidesSwapped(tool, rect, points) ==
  IF tool = "rect"
  THEN "inset(" \o ToString(rect.t) \o "% " \o ToString(rect.l) \o "% "
       \o ToString(rect.b) \o "% " \o ToString(rect.r) \o "%)"
  ELSE IF tool = "lasso" /\ Len(points) > 2
       THEN "polygon(" \o PointsStr(points) \o ")"
       ELSE ""

\* lines 297-303: the clip-region descriptor, '' when there is none
ClipPath(tool, rect, points) ==
  IF tool = "rect"
  THEN "inset(" \o ToString(rect.t) \o "% " \o ToString(rect.r) \o "% "
       \o ToString(rect.b) \o "% " \o ToString(rect.l) \o "%)"
  ELSE IF tool = "lasso" /\ Len(points) > 2
       THEN "polygon(" \o PointsStr(points) \o ")"
       ELSE ""

\* the map writing the descriptor to every item
SetClipPathOfAll(its, id, clipPath) ==
  [k \in 1..Len(its) |-> [its[k] EXCEPT !.style = [its[k].style EXCEPT !.clipPath = clipPath]]]

\* the map keeping a descriptor the item already has
SetClipPathKeepsFirst(its, id, clipPath) ==
  [k \in 1..Len(its) |-> IF its[k].id = id /\ its[k].style.clipPath = ""
                         THEN [its[k] EXCEPT !.style = [its[k].style EXCEPT !.clipPath = clipPath]]
                         ELSE its[k]]

\* the map that never finds the item
SetClipPathOfNone(its, id, clipPath) ==
  [k \in 1..Len(its) |-> its[k]]

\* items.map(item => item.id === id ? { ...item, style: { ...item.style, clipPath } } : item)
SetClipPath(its, id, clipPath) ==
  [k \in 1..Len(its) |-> IF its[k].id = id
                         THEN [its[k] EXCEPT !.style = [its[k].style EXCEPT !.clipPath = clipPath]]
                         ELSE its[k]]

applyCrop ==
  /\ cropModeItem # NULL
  /\ LET clipPath == ClipPath(cropToolType, cropRect, lassoPoints)
     IN /\ IF clipPath # ""
           THEN updateItems(Render, SetClipPath(items, cropModeItem, clipPath), TRUE)
           ELSE UNCHANGED <<items, history, historyIndex>>
        /\ Log("applyCrop", TRUE, clipPath # "")
  /\ cropModeItem' = NULL
  /\ UNCHANGED <<selectedItemId, isDragging, dragOffset, snappingEnabled, snapGuides,
                 cropToolType, cropRect, lassoPoints, pendingReads, randomDraws>>

\* a click at (x%, y%) of the item being cropped
handleCropClick(x, y) ==
  IF cropToolType = "lasso"
  THEN /\ cropModeItem # NULL
       /\ lassoPoints' = Append(lassoPoints, [x |-> x, y |-> y])
       /\ UNCHANGED <<items, selectedItemId, history, historyIndex, isDragging, dragOffset,
                      snappingEnabled, snapGuides, cropModeItem, cropToolType, cropRect,
                      pendingReads, randomDraws>>
       /\ Log("handleCropClick", TRUE, FALSE)
  ELSE cropModeItem # NULL /\ UNCHANGED progVars /\ Log("handleCropClick", FALSE, FALSE)

\* a click on the canvas background (e.target === e.currentTarget)
handleCanvasClick ==
  /\ selectedItemId' = NULL
  /\ cropModeItem' = NULL
  /\ UNCHANGED <<items, history, historyIndex, isDragging, dragOffset, snappingEnabled,
                 snapGuides, cropToolType, cropRect, lassoPoints, pendingReads, randomDraws>>
  /\ Log("handleCanvasClick", TRUE, FALSE)

\* line 453 and 472: the crop toolbar is rendered inside the image item being cropped
CropToolbarShown ==
  \E k \in 1..Len(items) : items[k].id = cropModeItem /\ items[k].type = "image"

\* lines 473 and 484-493: handleCropClick is bound to the wrapper of the image
\* being cropped and the crop toolbar is rendered inside that wrapper, so a
\* click on a toolbar button runs the button's handler and then, bubbling,
\* handleCropClick of the same render.  This is the point list that
\* handleCropClick sets for a click at (x%, y%).
CropClickPoints(x, y) ==
  IF cropModeItem # NULL /\ cropToolType = "lasso"
  THEN Append(lassoPoints, [x |-> x, y |-> y])
  ELSE lassoPoints

\* lines 488-489: a click on the rect or lasso button of the crop toolbar
clickCropTool(tool, x, y) ==
  /\ CropToolbarShown
  /\ cropToolType' = tool
  /\ lassoPoints' = CropClickPoints(x, y)
  /\ UNCHANGED <<items, selectedItemId, history, historyIndex, isDragging, dragOffset,
                 snappingEnabled, snapGuides, cropModeItem, cropRect,
                 pendingReads, randomDraws>>
  /\ Log("selectCropTool", TRUE, FALSE)

\* line 492: the Cancel button of the crop toolbar, in rect mode (the
\* bubbled handleCropClick does nothing there)
cancelCrop ==
  /\ CropToolbarShown
  /\ cropModeItem' = NULL
  /\ UNCHANGED <<items, selectedItemId, history, historyIndex, isDragging, dragOffset,
                 snappingEnabled, snapGuides, cropToolType, cropRect, lassoPoints,
                 pendingReads, randomDraws>>
  /\ Log("cancelCrop", TRUE, FALSE)

\* line 492: a click on the Cancel button of the crop toolbar
clickCancel(x, y) ==
  /\ CropToolbarShown
  /\ cropModeItem' = NULL
  /\ lassoPoints' = CropClickPoints(x, y)
  /\ UNCHANGED <<items, selectedItemId, history, historyIndex, isDragging, dragOffset,
                 snappingEnabled, snapGuides, cropToolType, cropRect,
                 pendingReads, randomDraws>>
  /\ Log("cancelCrop", TRUE, FALSE)

\* applyCrop leaving crop mode only when there is a descriptor
clickApplyStaysInCrop(x, y) ==
  /\ CropToolbarShown
  /\ LET clipPath == ClipPath(cropToolType, cropRect, lassoPoints)
     IN /\ IF clipPath # ""
           THEN /\ updateItems(Render, SetClipPath(items, cropModeItem, clipPath), TRUE)
                /\ cropModeItem' = NULL
           ELSE UNCHANGED <<items, history, historyIndex, cropModeItem>>
        /\ Log("applyCrop", TRUE, clipPath # "")
  /\ lassoPoints' = CropClickPoints(x, y)
  /\ UNCHANGED <<selectedItemId, isDragging, dragOffset, snappingEnabled, snapGuides,
                 cropToolType, cropRect, pendingReads, randomDraws>>

\* line 491: a click on the Apply button of the crop toolbar: applyCrop, then
\* the bubbled handleCropClick
clickApply(x, y) ==
  /\ CropToolbarShown
  /\ LET clipPath == ClipPath(cropToolType, cropRect, lassoPoints)
     IN /\ IF clipPath # ""
           THEN updateItems(Render, SetClipPath(items, cropModeItem, clipPath), TRUE)
           ELSE UNCHANGED <<items, history, historyIndex>>
        /\ Log("applyCrop", TRUE, clipPath # "")
  /\ cropModeItem' = NULL
  /\ lassoPoints' = CropClickPoints(x, y)
  /\ UNCHANGED <<selectedItemId, isDragging, dragOffset, snappingEnabled, snapGuides,
                 cropToolType, cropRect, pendingReads, randomDraws>>

\* the Crop button rendered for a selected item of any type
CropButtonShownAnyType ==
  /\ selectedItemId # NULL
  /\ cropModeItem = NULL
  /\ HasItem(items, selectedItemId)

\* lines 411-415: the Crop button is rendered while an image is selected and
\* no crop is active
CropButtonShown ==
  /\ selectedItemId # NULL
  /\ cropModeItem = NULL
  /\ HasItem(items, selectedItemId)
  /\ FindItem(items, selectedItemId).type = "image"

\* line 412: a click on the Crop button
clickCrop ==
  /\ CropButtonShown
  /\ startCrop

\* line 473: a click on the image being cropped
clickCropImage(x, y) ==
  /\ CropToolbarShown
  /\ handleCropClick(x, y)

\* line 663: the inset sliders are rendered for the selected item while it is rect-cropped
CropSlidersShown ==
  /\ HasItem(items, selectedItemId)
  /\ cropModeItem = selectedItemId
  /\ cropToolType = "rect"

\* the slider writing twice its value
adjustCropRectDoubled(side, value) ==
  /\ CropSlidersShown
  /\ cropRect' = [cropRect EXCEPT ![side] = 2 * value]
  /\ UNCHANGED <<items, selectedItemId, history, historyIndex, isDragging, dragOffset,
                 snappingEnabled, snapGuides, cropModeItem, cropToolType, lassoPoints,
                 pendingReads, randomDraws>>
  /\ Log("adjustCropRect", TRUE, FALSE)

\* line 673: one of the four inset sliders
adjustCropRect(side, value) ==
  /\ CropSlidersShown
  /\ cropRect' = [cropRect EXCEPT ![side] = value]
  /\ UNCHANGED <<items, selectedItemId, history, historyIndex, isDragging, dragOffset,
                 snappingEnabled, snapGuides, cropModeItem, cropToolType, lassoPoints,
                 pendingReads, randomDraws>>
  /\ Log("adjustCropRect", TRUE, FALSE)

\* ------------------------------------------------------- the state machine
Init ==
  /\ items = <<>>
  /\ selectedItemId = NULL
  /\ history = <<(<<>>)>>
  /\ historyIndex = 0
  /\ isDragging = FALSE
  /\ dragOffset = [x |-> 0, y |-> 0]
  /\ snappingEnabled = TRUE
  /\ snapGuides = <<>>
  /\ cropModeItem = NULL
  /\ cropToolType = "rect"
  /\ cropRect = [t |-> 0, r |-> 0, b |-> 0, l |-> 0]
  /\ lassoPoints = <<>>
  /\ pendingReads = <<>>
  /\ randomDraws = 0
  /\ lastOp = [name |-> NONE, fired |-> FALSE, committed |-> FALSE]
  /\ undoMark = NoMark
  /\ editMark = NoMark
  /\ commits = [n |-> 0, clean |-> TRUE]
  /\ cancelMark = 0
  /\ dragFrame = NoFrame
  /\ dragItem = NULL

\* What bounds a step: the history keeps at most h snapshots, at most n ids
\* are drawn, at most p reads are in flight, and a drag moves an item to
\* coordinates in 0..c.
Within(h, n, p, c) ==
  /\ Len(history') <= h
  /\ randomDraws' <= n
  /\ Len(pendingReads') <= p
  /\ \A k \in 1..Len(items') :
       (k <= Len(items) /\ items'[k].id = items[k].id /\ items'[k].x # items[k].x)
         => items'[k].x \in 0..c

\* The editing session on image items, without file import, the crop working
\* tools and the snapping toggle: a crop is started, applied with the insets
\* startCrop gives it, or cancelled; snapping stays on.
Bounded == Within(MaxHistory, MaxIds, 0, MaxCoord)

Next ==
  \/ handleUndo
  \/ handleRedo
  \/ \E kind \in {"image"} : clickAsset(kind) /\ Bounded
  \/ handleDelete /\ Bounded
  \/ \E e \in PanelEdits : handlePropertyChange(e[1], e[2]) /\ Bounded
  \/ \E k \in 1..Len(items), cx \in GrabXs, cy \in PointerYs : handleMouseDown(items[k].id, cx, cy)
  \/ \E cx \in MoveXs, cy \in PointerYs : handleMouseMove(cx, cy) /\ Bounded
  \/ handleMouseUp /\ Bounded
  \/ clickCrop
  \/ applyCrop /\ Bounded
  \/ cancelCrop
  \/ handleCanvasClick

Spec == Init /\ [][Next]_vars

\* The import race: adds, deletes, panel edits, undo and redo while a file
\* read is in flight.
ImportBounded == Within(ImportMaxHistory, ImportMaxIds, ImportMaxPending, 0)

NextImport ==
  \/ handleUndo
  \/ handleRedo
  \/ \E kind \in {"image"} : clickAsset(kind) /\ ImportBounded
  \/ addText /\ ImportBounded
  \/ handleDelete /\ ImportBounded
  \/ \E e \in PanelEdits : handlePropertyChange(e[1], e[2]) /\ ImportBounded
  \/ handleFileChange /\ ImportBounded
  \/ \E k \in 1..Len(pendingReads) : readerOnload(k) /\ ImportBounded

SpecImport == Init /\ [][NextImport]_vars

\* Deleting and restoring: scenes of several items, drags, deletes, undo
\* and redo.
DeleteBounded == Within(DeleteMaxHistory, DeleteMaxIds, 0, MaxCoord)

NextDelete ==
  \/ handleUndo
  \/ handleRedo
  \/ \E kind \in {"image"} : clickAsset(kind) /\ DeleteBounded
  \/ handleDelete /\ DeleteBounded
  \/ \E k \in 1..Len(items), cx \in GrabXs, cy \in PointerYs : handleMouseDown(items[k].id, cx, cy)
  \/ \E cx \in MoveXs, cy \in PointerYs : handleMouseMove(cx, cy) /\ DeleteBounded
  \/ handleMouseUp /\ DeleteBounded

SpecDelete == Init /\ [][NextDelete]_vars

\* The property panel: every input of the panel, on text and shape items,
\* with undo and redo.
PanelBounded == Within(PanelMaxHistory, PanelMaxIds, 0, 0)

\* line 549 (the panel is rendered for the selected item), 647 and 683
PanelShows(e) ==
  /\ HasItem(items, selectedItemId)
  /\ FindItem(items, selectedItemId).type \in e[3]

NextPanel ==
  \/ handleUndo
  \/ handleRedo
  \/ addText /\ PanelBounded
  \/ \E shapeType \in {"circle"} : addShape(shapeType) /\ PanelBounded
  \/ \E e \in PanelInputs : PanelShows(e) /\ handlePropertyChange(e[1], e[2]) /\ PanelBounded

SpecPanel == Init /\ [][NextPanel]_vars

\* Cropping: the Crop button, the tool buttons, one inset slider, Apply and
\* Cancel, on image and text items that are selected by adding them or by a
\* pointer down.  The only lasso points are those of clicks on the toolbar.
CropBounded ==
  /\ Within(CropMaxHistory, CropMaxIds, 0, 0)
  /\ Len(lassoPoints') <= CropMaxPoints

NextCrop ==
  \/ handleUndo
  \/ handleRedo
  \/ \E kind \in {"image"} : clickAsset(kind) /\ CropBounded
  \/ addText /\ CropBounded
  \/ \E k \in 1..Len(items), cx \in GrabXs, cy \in PointerYs : handleMouseDown(items[k].id, cx, cy)
  \/ handleMouseUp /\ CropBounded
  \/ clickCrop
  \/ \E tool \in CropTools, c \in ToolbarClicks : clickCropTool(tool, c[1], c[2]) /\ CropBounded
  \/ \E a \in {<<"t", 10>>} : adjustCropRect(a[1], a[2])
  \/ \E c \in ToolbarClicks : clickApply(c[1], c[2]) /\ CropBounded
  \/ \E c \in ToolbarClicks : clickCancel(c[1], c[2]) /\ CropBounded
  \/ handleCanvasClick

SpecCrop == Init /\ [][NextCrop]_vars

\* The rect insets: the four sliders of a rect crop and Apply.
InsetsBounded == Within(InsetsMaxHistory, InsetsMaxIds, 0, 0)

NextInsets ==
  \/ handleUndo
  \/ \E kind \in {"image"} : clickAsset(kind) /\ InsetsBounded
  \/ clickCrop
  \/ \E a \in CropAdjusts : adjustCropRect(a[1], a[2])
  \/ \E c \in ToolbarClicks : clickApply(c[1], c[2]) /\ InsetsBounded

SpecInsets == Init /\ [][NextInsets]_vars

\* Cropping with the lasso tool: clicks on the image being cropped and on
\* the toolbar, Apply and Cancel.  A click on the image or on a tool button
\* is taken while it leaves at most LassoMaxPoints points; the click on
\* Apply or Cancel that ends the session may add one more.
LassoBounded == Within(LassoMaxHistory, LassoMaxIds, 0, 0)

NextLasso ==
  \/ handleUndo
  \/ \E kind \in {"image"} : clickAsset(kind) /\ LassoBounded
  \/ clickCrop
  \/ \E tool \in CropTools, c \in ToolbarClicks :
        clickCropTool(tool, c[1], c[2]) /\ Len(lassoPoints') <= LassoMaxPoints
  \/ \E c \in LassoClicks : clickCropImage(c[1], c[2]) /\ Len(lassoPoints') <= LassoMaxPoints
  \/ \E c \in ToolbarClicks : clickApply(c[1], c[2]) /\ LassoBounded
  \/ \E c \in ToolbarClicks : clickCancel(c[1], c[2])

SpecLasso == Init /\ [][NextLasso]_vars

\* Cropping again: scenes of several images, each cropped more than once
\* with either tool, and undo.  The lasso points are those of clicks on the
\* lasso button of the toolbar.
RecropBounded == Within(RecropMaxHistory, RecropMaxIds, 0, 0)

NextRecrop ==
  \/ handleUndo
  \/ \E kind \in {"image"} : clickAsset(kind) /\ RecropBounded
  \/ clickCrop
  \/ \E tool \in CropTools, c \in ToolbarClicks :
        clickCropTool(tool, c[1], c[2]) /\ Len(lassoPoints') <= RecropMaxPoints
  \/ \E a \in {<<"t", 10>>} : adjustCropRect(a[1], a[2])
  \/ \E c \in ToolbarClicks : clickApply(c[1], c[2]) /\ RecropBounded

SpecRecrop == Init /\ [][NextRecrop]_vars

\* line 336: the root element takes every pointer-up, so a drag has ended
\* before a click on a button or a pointer-down on an item is delivered
PointerIsUp == ~isDragging

\* Snapping: pointer gestures (down on an image, moves, up) that drag images
\* close to the canvas origin and to each other, and clicks on the Magnet
\* button and on an asset between gestures.
SnapBounded == Within(SnapMaxHistory, SnapMaxIds, 0, MaxCoord)

NextSnap ==
  \/ PointerIsUp /\ \E kind \in {"image"} : clickAsset(kind) /\ SnapBounded
  \/ PointerIsUp /\ \E k \in 1..Len(items), g \in SnapGrabs :
        handleMouseDown(items[k].id, items[k].x + g[1], items[k].y + g[2])
  \/ \E p \in SnapMoves : handleMouseMove(p[1], p[2]) /\ SnapBounded
  \/ handleMouseUp /\ SnapBounded
  \/ PointerIsUp /\ toggleSnapping

SpecSnap == Init /\ [][NextSnap]_vars

\* The Magnet button: the handlers of a drag of images to a place close to
\* the canvas origin, of the Magnet button and of an asset click, in any order.
MagnetBounded == Within(MagnetMaxHistory, MagnetMaxIds, 0, MaxCoord)

NextMagnet ==
  \/ \E kind \in {"image"} : clickAsset(kind) /\ MagnetBounded
  \/ \E k \in 1..Len(items), g \in SnapGrabs :
        handleMouseDown(items[k].id, items[k].x + g[1], items[k].y + g[2])
  \/ \E p \in MagnetMoves : handleMouseMove(p[1], p[2]) /\ MagnetBounded
  \/ handleMouseUp /\ MagnetBounded
  \/ toggleSnapping

SpecMagnet == Init /\ [][NextMagnet]_vars

\* The scene: adds from the asset library, of text boxes and of shapes,
\* deletes, undo and redo.
SceneBounded == Within(SceneMaxHistory, SceneMaxIds, 0, 0)

NextScene ==
  \/ handleUndo
  \/ handleRedo
  \/ \E kind \in AssetKinds : clickAsset(kind) /\ SceneBounded
  \/ addText /\ SceneBounded
  \/ \E shapeType \in ShapeKinds : addShape(shapeType) /\ SceneBounded
  \/ handleDelete /\ SceneBounded

SpecScene == Init /\ [][NextScene]_vars

\* File reads: imports whose read completes at any later time, adds from
\* the asset library, deletes, undo and redo.
ReadsBounded == Within(ReadsMaxHistory, ReadsMaxIds, ReadsMaxPending, 0)

NextReads ==
  \/ handleUndo
  \/ handleRedo
  \/ \E kind \in {"image"} : clickAsset(kind) /\ ReadsBounded
  \/ handleDelete /\ ReadsBounded
  \/ handleFileChange /\ ReadsBounded
  \/ \E k \in 1..Len(pendingReads) : readerOnload(k) /\ ReadsBounded

SpecReads == Init /\ [][NextReads]_vars

\* Drag gestures while a file is read: pointer gestures (down on an image,
\* moves, up), clicks on an asset and file choices between gestures, and
\* reads that complete at any time, also in the middle of a gesture.
GestureBounded == Within(GestureMaxHistory, GestureMaxIds, GestureMaxPending, MaxCoord)

NextGesture ==
  \/ PointerIsUp /\ \E kind \in {"image"} : clickAsset(kind) /\ GestureBounded
  \/ PointerIsUp /\ handleFileChange /\ GestureBounded
  \/ \E k \in 1..Len(pendingReads) : readerOnload(k) /\ GestureBounded
  \/ PointerIsUp /\ \E k \in 1..Len(items), cx \in GrabXs, cy \in PointerYs :
        handleMouseDown(items[k].id, cx, cy)
  \/ \E cx \in MoveXs, cy \in PointerYs : handleMouseMove(cx, cy) /\ GestureBounded
  \/ handleMouseUp /\ GestureBounded

SpecGesture == Init /\ [][NextGesture]_vars

\* Chains of snaps: pointer gestures that drag one of two images to either
\* side of the canvas origin and next to the other image, with the Magnet
\* button clicked between gestures, so that an image can be left within the
\* threshold of the origin without being on it.
ChainBounded == Within(ChainMaxHistory, ChainMaxIds, 0, MaxCoord)

NextChain ==
  \/ PointerIsUp /\ \E kind \in {"image"} : clickAsset(kind) /\ ChainBounded
  \/ PointerIsUp /\ \E k \in 1..Len(items), g \in ChainGrabs :
        handleMouseDown(items[k].id, items[k].x + g[1], items[k].y + g[2])
  \/ \E p \in ChainMoves : handleMouseMove(p[1], p[2]) /\ ChainBounded
  \/ handleMouseUp /\ ChainBounded
  \/ PointerIsUp /\ toggleSnapping

SpecChain == Init /\ [][NextChain]_vars

\* ==================================================================
\* Properties
\* ==================================================================
Fields == {"id", "type", "shapeType", "content", "x", "y", "width", "height",
           "zIndex", "rotation", "borderRadius", "color", "style"}

\* two scenes with the same items that differ at most in x and y
SameButPosition(a, b) ==
  /\ Len(a) = Len(b)
  /\ \A k \in 1..Len(a) : \A f \in Fields \ {"x", "y"} : a[k][f] = b[k][f]

\* C1 as stated: in every reachable state the live item list equals
\* history[historyIndex].
C1_LiveIsCursorEntry == items = At(history, historyIndex)

\* C1 amended: whenever no drag is in progress the live item list equals
\* history[historyIndex]; while a drag is in progress the two hold the same
\* items and differ at most in their x and y.
C1_LiveIsCursorEntryUnlessDragging ==
  /\ ~isDragging => items = At(history, historyIndex)
  /\ isDragging => SameButPosition(items, At(history, historyIndex))

\* a drag that moved an item has just been committed
C1_Witness ==
  /\ lastOp.name = "handleMouseUp"
  /\ historyIndex > 0
  /\ items # At(history, historyIndex - 1)
  /\ items = At(history, historyIndex)

\* C3 as stated: from every state with cursor > 0, an undo directly followed
\* by a redo leaves the live scene, the history and the cursor as they were
\* before the undo.
C3_UndoRedoRestores ==
  (lastOp.name = "handleRedo" /\ undoMark.age = 2)
    => /\ items = undoMark.items
       /\ history = undoMark.history
       /\ historyIndex = undoMark.historyIndex

\* C3 amended: from every state with cursor > 0 whose live scene equals
\* history[cursor] (no uncommitted drag edit), an undo directly followed by
\* a redo leaves the live scene, the history and the cursor as they were.
C3_UndoRedoRestoresCommitted ==
  (/\ lastOp.name = "handleRedo"
   /\ undoMark.age = 2
   /\ undoMark.items = At(undoMark.history, undoMark.historyIndex))
    => /\ items = undoMark.items
       /\ history = undoMark.history
       /\ historyIndex = undoMark.historyIndex

\* an undo of a non-empty committed scene was followed directly by a redo
C3_Witness ==
  /\ lastOp.name = "handleRedo"
  /\ undoMark.age = 2
  /\ undoMark.historyIndex > 0
  /\ undoMark.items # <<>>
  /\ undoMark.items = At(undoMark.history, undoMark.historyIndex)

\* C5: handleUndo at cursor 0 and handleRedo at the tail change neither the
\* live items, the history, the cursor, the selection nor the crop state.
C5_UndoRedoAtBoundsAreNoOps ==
  [][((lastOp'.name = "handleUndo" /\ historyIndex = 0)
      \/ (lastOp'.name = "handleRedo" /\ historyIndex = Len(history) - 1))
     => UNCHANGED <<items, history, historyIndex, selectedItemId, cropModeItem,
                    cropToolType, cropRect, lassoPoints>>]_vars

\* handleRedo was called at the tail of the history while a crop was active
C5_Witness ==
  /\ lastOp.name = "handleRedo"
  /\ ~lastOp.fired
  /\ historyIndex = Len(history) - 1
  /\ Len(history) > 1
  /\ cropModeItem # NULL

\* C8: handleDelete with no selection changes nothing.
C8_DeleteWithoutSelectionIsNoOp ==
  [][(lastOp'.name = "handleDelete" /\ selectedItemId = NULL) => UNCHANGED progVars]_vars

\* handleDelete was called on a non-empty scene with nothing selected
C8_Witness ==
  /\ lastOp.name = "handleDelete"
  /\ ~lastOp.fired
  /\ selectedItemId = NULL
  /\ items # <<>>

\* C9: handleMouseDown and handleMouseMove never change history or cursor;
\* isDragging, once set, is cleared only by handleMouseUp; and handleMouseUp
\* during a drag appends exactly one snapshot, the live items, after the
\* cursor.
C9_DragCommitsOnceAtMouseUp ==
  [][/\ lastOp'.name \in {"handleMouseDown", "handleMouseMove"}
          => UNCHANGED <<history, historyIndex>>
     /\ (isDragging /\ ~isDragging') => lastOp'.name = "handleMouseUp"
     /\ (lastOp'.name = "handleMouseUp" /\ isDragging)
          => /\ ~isDragging'
             /\ items' = items
             /\ history' = Append(Slice(history, historyIndex + 1), items)
             /\ historyIndex' = historyIndex + 1]_vars

\* a drag with at least one frame that moved the item has been committed
C9_Witness ==
  /\ lastOp.name = "handleMouseUp"
  /\ lastOp.committed
  /\ ~isDragging
  /\ historyIndex > 0
  /\ Len(items) = Len(At(history, historyIndex - 1))
  /\ items # At(history, historyIndex - 1)

\* C2: while no undo or redo has run, after N calls of recordHistory the
\* history has N+1 entries, the cursor is N and entry 0 is the empty scene.
C2_CommitCount ==
  commits.clean => /\ Len(history) = commits.n + 1
                   /\ historyIndex = commits.n
                   /\ At(history, 0) = <<>>

\* C4: a commit made with the cursor before the tail keeps the entries up to
\* the cursor, appends the new scene and puts the cursor on it; and a redo
\* directly after a commit changes nothing.
C4_CommitTruncatesRedoIsNoOp ==
  [][/\ (lastOp'.committed /\ historyIndex < Len(history) - 1)
          => /\ history' = Append(Slice(history, historyIndex + 1), items')
             /\ historyIndex' = Len(history') - 1
     /\ (lastOp.committed /\ lastOp'.name = "handleRedo") => UNCHANGED progVars]_vars

\* C6: every step keeps the entries 0..cursor of the history as they were.
C6_StoredSnapshotsKept ==
  [][\A i \in 0..historyIndex : i < Len(history') /\ At(history', i) = At(history, i)]_vars

\* the sequence without its k-th element
RemovedAt(its, k) == SubSeq(its, 1, k - 1) \o SubSeq(its, k + 1, Len(its))

\* C7 as stated: handleDelete with a selected item removes exactly that item
\* and clears the selection; an undo directly after it brings the item back
\* with the field values it had when it was deleted.
C7_DeleteThenUndoRestores ==
  [][/\ (lastOp'.name = "handleDelete" /\ HasItem(items, selectedItemId))
          => /\ selectedItemId' = NULL
             /\ \E k \in 1..Len(items) : items[k].id = selectedItemId /\ items' = RemovedAt(items, k)
     /\ (/\ lastOp'.name = "handleUndo" /\ lastOp'.fired
         /\ editMark.op = "handleDelete" /\ editMark.age = 1
         /\ HasItem(editMark.items, editMark.selectedItemId))
          => \E k \in 1..Len(items') : items'[k] = FindItem(editMark.items, editMark.selectedItemId)]_vars

\* C7 amended: the same, for a delete made while the live scene equals
\* history[cursor] (no uncommitted drag edit).
C7_DeleteThenUndoRestoresCommitted ==
  [][/\ (lastOp'.name = "handleDelete" /\ HasItem(items, selectedItemId))
          => /\ selectedItemId' = NULL
             /\ \E k \in 1..Len(items) : items[k].id = selectedItemId /\ items' = RemovedAt(items, k)
     /\ (/\ lastOp'.name = "handleUndo" /\ lastOp'.fired
         /\ editMark.op = "handleDelete" /\ editMark.age = 1
         /\ HasItem(editMark.items, editMark.selectedItemId)
         /\ editMark.items = At(editMark.history, editMark.historyIndex))
          => /\ items' = editMark.items
             /\ \E k \in 1..Len(items') : items'[k] = FindItem(editMark.items, editMark.selectedItemId)]_vars

\* the first of two items was deleted from a committed scene and restored by undo
C7_Witness ==
  /\ lastOp.name = "handleUndo"
  /\ editMark.op = "handleDelete"
  /\ editMark.age = 2
  /\ Len(editMark.items) >= 2
  /\ editMark.selectedItemId = editMark.items[1].id
  /\ editMark.items = At(editMark.history, editMark.historyIndex)
  /\ items = editMark.items

\* C10: a panel edit with the selected item in the scene sets the named
\* field of that item to the given value, leaves its other fields and the
\* other items as they were, and appends exactly one snapshot, the new
\* scene, after the cursor.
C10_PanelEditCommitsOneField ==
  [][(lastOp'.name = "handlePropertyChange" /\ HasItem(items, selectedItemId))
      => /\ Len(items') = Len(items)
         /\ \E e \in PanelInputs \cup PanelEdits :
              \A k \in 1..Len(items) :
                /\ items[k].id # selectedItemId => items'[k] = items[k]
                /\ items[k].id = selectedItemId
                     => /\ items'[k][e[1]] = e[2]
                        /\ \A f \in Fields \ {e[1]} : items'[k][f] = items[k][f]
         /\ history' = Append(Slice(history, historyIndex + 1), items')
         /\ historyIndex' = historyIndex + 1]_vars

\* a panel edit on one of two items has just committed: the entry at the
\* cursor is the new scene and differs from the one before it
C10_Witness ==
  /\ lastOp.name = "handlePropertyChange"
  /\ Len(items) = 2
  /\ lastOp.fired /\ lastOp.committed
  /\ historyIndex = 3
  /\ Len(At(history, 2)) = 2
  /\ At(history, 3) # At(history, 2)
  /\ At(history, 3) = items

\* ------------------------------------------------------------ cropping
ZeroInsets == [t |-> 0, r |-> 0, b |-> 0, l |-> 0]

\* C11: while a crop is active, handleMouseDown on an item starts no drag and
\* leaves the selection, the drag offset, the items and the history as they
\* were.
C11_NoDragWhileCropping ==
  [][(lastOp'.name = "handleMouseDown" /\ cropModeItem # NULL)
     => UNCHANGED <<isDragging, selectedItemId, dragOffset, items, history, historyIndex,
                    cropModeItem>>]_vars

\* a pointer down on the image being cropped with the lasso tool was rejected
C11_Witness ==
  /\ lastOp.name = "handleMouseDown"
  /\ ~lastOp.fired
  /\ HasItem(items, cropModeItem)
  /\ cropToolType = "lasso"
  /\ ~isDragging

\* C12: a step that makes an item the crop target is a startCrop from the
\* Crop button: the target is the selected item, it is in the scene and an
\* image, and the crop starts with the rect tool, zero insets and no lasso
\* points.
C12_CropEntry ==
  [][(cropModeItem' # NULL /\ cropModeItem' # cropModeItem)
     => /\ lastOp'.name = "startCrop"
        /\ cropModeItem' = selectedItemId
        /\ selectedItemId' = selectedItemId
        /\ HasItem(items, selectedItemId)
        /\ FindItem(items, selectedItemId).type = "image"
        /\ cropToolType' = "rect"
        /\ cropRect' = ZeroInsets
        /\ lassoPoints' = <<>>]_vars

\* a crop of an image that carries an earlier crop has just started, with
\* insets left behind by the earlier session reset
C12_Witness ==
  /\ lastOp.name = "startCrop"
  /\ cropModeItem = selectedItemId
  /\ HasItem(items, cropModeItem)
  /\ FindItem(items, cropModeItem).type = "image"
  /\ FindItem(items, cropModeItem).style.clipPath = "inset(10% 0% 0% 0%)"
  /\ cropRect = ZeroInsets

\* C13: a click on a tool button that changes the tool keeps the crop target
\* and leaves zero insets and an empty lasso point list.
C13_ToolSwitchResets ==
  [][(lastOp'.name = "selectCropTool" /\ cropToolType' # cropToolType)
     => /\ cropModeItem' = cropModeItem
        /\ cropRect' = ZeroInsets
        /\ lassoPoints' = <<>>]_vars

\* C14: Apply with the rect tool, or with the lasso tool and at least 3
\* points, sets the clipPath of the crop target to the descriptor and leaves
\* the rest of the scene as it was, appends exactly one snapshot, the new
\* scene, after the cursor, and clears the crop target.
C14_ApplyCommitsDescriptor ==
  [][(lastOp'.name = "applyCrop"
      /\ (cropToolType = "rect" \/ (cropToolType = "lasso" /\ Len(lassoPoints) >= 3)))
     => /\ ClipPath(cropToolType, cropRect, lassoPoints) # ""
        /\ Len(items') = Len(items)
        /\ \E k \in 1..Len(items) : items[k].id = cropModeItem
        /\ \A k \in 1..Len(items) :
             /\ items[k].id # cropModeItem => items'[k] = items[k]
             /\ items[k].id = cropModeItem
                  => /\ items'[k].style.clipPath = ClipPath(cropToolType, cropRect, lassoPoints)
                     /\ \A f \in Fields \ {"style"} : items'[k][f] = items[k][f]
        /\ history' = Append(Slice(history, historyIndex + 1), items')
        /\ historyIndex' = historyIndex + 1
        /\ cropModeItem' = NULL]_vars

\* Apply was clicked with the lasso tool and 3 points (the click on Apply
\* added a fourth after the descriptor was taken) and committed
C14_Witness ==
  /\ lastOp.name = "applyCrop"
  /\ lastOp.committed
  /\ cropToolType = "lasso"
  /\ Len(lassoPoints) = 4
  /\ cropModeItem = NULL
  /\ HasItem(items, selectedItemId)
  /\ FindItem(items, selectedItemId).style.clipPath # ""
  /\ items = At(history, historyIndex)

\* C15: Apply with the lasso tool and fewer than 3 points leaves the items,
\* the history and the cursor as they were and clears the crop target.
C15_ShortLassoApply ==
  [][(lastOp'.name = "applyCrop" /\ cropToolType = "lasso" /\ Len(lassoPoints) < 3)
     => /\ UNCHANGED <<items, history, historyIndex>>
        /\ cropModeItem' = NULL]_vars

\* Apply was clicked with the lasso tool and 2 points
C15_Witness ==
  /\ lastOp.name = "applyCrop"
  /\ ~lastOp.committed
  /\ cropToolType = "lasso"
  /\ Len(lassoPoints) = 3
  /\ cropModeItem = NULL

\* C16: Cancel leaves the items, the history and the cursor as they were and
\* clears the crop target, and every crop session starts with zero insets
\* and no lasso points, whatever the sessions before it left.
C16_CancelDiscards ==
  [][/\ lastOp'.name = "cancelCrop"
          => (UNCHANGED <<items, history, historyIndex>> /\ cropModeItem' = NULL)
     /\ (cropModeItem = NULL /\ cropModeItem' # NULL)
          => (cropRect' = ZeroInsets /\ lassoPoints' = <<>>)]_vars

\* a crop has started right after a crop with working data was cancelled
C16_Witness ==
  /\ cancelMark = 2
  /\ lastOp.name = "startCrop"
  /\ cropModeItem # NULL

\* C17: handleCanvasClick leaves no selection, no crop target and no drag in
\* progress, and the items, the history and the cursor as they were.
C17_CanvasClickToIdle ==
  [][lastOp'.name = "handleCanvasClick"
     => /\ selectedItemId' = NULL
        /\ cropModeItem' = NULL
        /\ ~isDragging'
        /\ UNCHANGED <<items, history, historyIndex>>]_vars

\* the clipPath of the item with the given id
ClipPathOf(its, id) == FindItem(its, id).style.clipPath

\* C18: Apply with the rect tool stores the inset descriptor of the working
\* insets in the order top, right, bottom, left: insets (t, r, b, l) give
\* inset(t% r% b% l%).
C18_RectDescriptor ==
  [][(lastOp'.name = "applyCrop" /\ cropToolType = "rect")
     => /\ ClipPathOf(items', cropModeItem)
             = "inset(" \o ToString(cropRect.t) \o "% " \o ToString(cropRect.r) \o "% "
                        \o ToString(cropRect.b) \o "% " \o ToString(cropRect.l) \o "%)"
        /\ cropRect = [t |-> 10, r |-> 50, b |-> 0, l |-> 0]
             => ClipPathOf(items', cropModeItem) = "inset(10% 50% 0% 0%)"
        /\ cropRect = [t |-> 0, r |-> 0, b |-> 10, l |-> 50]
             => ClipPathOf(items', cropModeItem) = "inset(0% 0% 10% 50%)"]_vars

\* Apply was clicked with the insets top 10, right 50, bottom 10, left 0 and
\* stored their descriptor
C18_Witness ==
  /\ lastOp.name = "applyCrop"
  /\ lastOp.committed
  /\ cropRect = [t |-> 10, r |-> 50, b |-> 10, l |-> 0]
  /\ HasItem(items, selectedItemId)
  /\ ClipPathOf(items, selectedItemId) = "inset(10% 50% 10% 0%)"

\* C19: each of the four working insets lies in 0..50.
C19_InsetsInRange ==
  \A side \in CropSides : cropRect[side] \in 0..50

\* a rect crop is active with the right inset at 50 and the top inset at 10
C19_Witness ==
  /\ cropModeItem # NULL
  /\ cropToolType = "rect"
  /\ cropRect.r = 50
  /\ cropRect.t = 10
  /\ cropRect.l = 0

\* the points of a polygon descriptor, written from the last backwards
RECURSIVE PointList(_)
PointList(points) ==
  IF Len(points) = 0 THEN ""
  ELSE LET n == Len(points)
           p == points[n]
       IN (IF n = 1 THEN "" ELSE PointList(SubSeq(points, 1, n - 1)) \o ", ")
          \o ToString(p.x) \o "% " \o ToString(p.y) \o "%"

\* the handlers a click inside the box of the cropped image runs
CropClickOps == {"handleCropClick", "selectCropTool", "applyCrop", "cancelCrop"}

\* C20: a click inside the box of the image being cropped with the lasso
\* tool appends its point to the end of the point list, and with the rect
\* tool leaves the list as it is; without a crop target only startCrop
\* changes the list; and Apply with the lasso tool and at least 3 points
\* stores the polygon descriptor of the points in click order, each as
\* "x% y%".
C20_LassoClicksAppend ==
  [][/\ (lastOp'.name \in CropClickOps /\ cropModeItem # NULL /\ cropToolType = "lasso")
          => \E c \in LassoClicks \cup ToolbarClicks :
               lassoPoints' = Append(lassoPoints, [x |-> c[1], y |-> c[2]])
     /\ (lastOp'.name \in CropClickOps /\ cropModeItem # NULL /\ cropToolType = "rect")
          => lassoPoints' = lassoPoints
     /\ (cropModeItem = NULL /\ lastOp'.name # "startCrop")
          => lassoPoints' = lassoPoints
     /\ (lastOp'.name = "applyCrop" /\ cropToolType = "lasso" /\ Len(lassoPoints) >= 3)
          => /\ ClipPathOf(items', cropModeItem) = "polygon(" \o PointList(lassoPoints) \o ")"
             /\ lassoPoints = <<[x |-> 10, y |-> 10], [x |-> 5, y |-> -12], [x |-> 10, y |-> 10]>>
                  => ClipPathOf(items', cropModeItem) = "polygon(10% 10%, 5% -12%, 10% 10%)"]_vars

\* Apply was clicked after a click on the image, a click on the toolbar and
\* another click on the image, and stored their polygon
C20_Witness ==
  /\ lastOp.name = "applyCrop"
  /\ lastOp.committed
  /\ cropToolType = "lasso"
  /\ lassoPoints = <<[x |-> 10, y |-> 10], [x |-> 5, y |-> -12], [x |-> 10, y |-> 10],
                     [x |-> 5, y |-> -12]>>
  /\ HasItem(items, selectedItemId)
  /\ ClipPathOf(items, selectedItemId) = "polygon(10% 10%, 5% -12%, 10% 10%)"

\* ------------------------------------------------------- cropping again
\* C21: an Apply changes at most the style.clipPath of the crop target: the
\* scene keeps its length and order, the target keeps every other field and
\* every other item is as it was; and an undo right after an Apply that
\* committed shows the snapshot that was at the cursor before the Apply.
C21_ApplyChangesClipPathOnly ==
  [][/\ lastOp'.name = "applyCrop"
          => /\ Len(items') = Len(items)
             /\ \A k \in 1..Len(items) :
                  /\ items[k].id # cropModeItem => items'[k] = items[k]
                  /\ \A f \in Fields \ {"style"} : items'[k][f] = items[k][f]
     /\ (lastOp'.name = "handleUndo" /\ editMark'.age = 2 /\ editMark'.op = "applyCrop"
         /\ historyIndex = editMark'.historyIndex + 1)
          => items' = At(editMark'.history, editMark'.historyIndex)]_vars

\* an Apply on the second of two images was undone: the scene is the two
\* uncropped images again
C21_Witness ==
  /\ lastOp.name = "handleUndo"
  /\ editMark.age = 2
  /\ editMark.op = "applyCrop"
  /\ Len(items) = 2
  /\ items = At(editMark.history, editMark.historyIndex)
  /\ At(history, historyIndex + 1) # items
  /\ \A k \in 1..Len(items) : items[k].style.clipPath = ""

\* C22: an Apply that commits on an item that already has a clipPath leaves
\* it with the descriptor of the working data of this crop, whatever the
\* earlier descriptor was.
C22_SecondCropReplaces ==
  [][(lastOp'.name = "applyCrop" /\ lastOp'.committed
      /\ HasItem(items, cropModeItem) /\ ClipPathOf(items, cropModeItem) # "")
     => ClipPathOf(items', cropModeItem) = ClipPath(cropToolType, cropRect, lassoPoints)]_vars

\* an image cropped with the rect tool was cropped again with the lasso tool
C22_Witness ==
  /\ lastOp.name = "applyCrop"
  /\ lastOp.committed
  /\ cropToolType = "lasso"
  /\ historyIndex >= 2
  /\ HasItem(items, selectedItemId)
  /\ HasItem(At(history, historyIndex - 1), selectedItemId)
  /\ ClipPathOf(At(history, historyIndex - 1), selectedItemId) = "inset(10% 0% 0% 0%)"
  /\ ClipPathOf(items, selectedItemId) = "polygon(5% -12%, 5% -12%, 5% -12%)"

\* ------------------------------------------------------------- snapping
\* the items other than the one with the given id, in scene order
Others(its, id) == SelectSeq(its, LAMBDA i : i.id # id)

\* the item being dragged, after a step
DraggedAfter == FindItem(items', selectedItemId)

\* the step is a drag frame with snapping on
SnapFrame ==
  /\ dragFrame'.on
  /\ snappingEnabled
  /\ HasItem(items, selectedItemId)

\* a pointerUp right after a drag frame commits the scene of that frame
FrameIsCommitted ==
  (lastOp.name = "handleMouseMove" /\ lastOp'.name = "handleMouseUp")
    => (At(history', historyIndex') = items /\ items' = items)

\* C23 as stated: in a drag frame with snapping on, a candidate within the
\* threshold of the canvas origin on an axis leaves the dragged item at
\* exactly 0 on that axis with a non-empty guide list, and a pointerUp right
\* after the frame commits that position.
C23_OriginSnap ==
  [][/\ SnapFrame =>
          /\ Abs(dragFrame'.x) < SNAP_THRESHOLD
               => (DraggedAfter.x = 0 /\ snapGuides' # <<>>)
          /\ Abs(dragFrame'.y) < SNAP_THRESHOLD
               => (DraggedAfter.y = 0 /\ snapGuides' # <<>>)
     /\ FrameIsCommitted]_vars

\* C23 amended: the same, for an axis on which every other item's leading
\* edge is either 0 or at least the threshold away from 0.
C23_OriginSnapUnlessItemNearOrigin ==
  [][/\ SnapFrame =>
          LET o == Others(items, selectedItemId)
          IN /\ (/\ Abs(dragFrame'.x) < SNAP_THRESHOLD
                  /\ \A k \in 1..Len(o) : o[k].x = 0 \/ Abs(o[k].x) >= SNAP_THRESHOLD)
                  => (DraggedAfter.x = 0 /\ snapGuides' # <<>>)
             /\ (/\ Abs(dragFrame'.y) < SNAP_THRESHOLD
                  /\ \A k \in 1..Len(o) : o[k].y = 0 \/ Abs(o[k].y) >= SNAP_THRESHOLD)
                  => (DraggedAfter.y = 0 /\ snapGuides' # <<>>)
     /\ FrameIsCommitted]_vars

\* with snapping on, the second of two images was dragged from where it
\* appeared to x = 0, the first being 12 away from the origin, and the drag
\* was committed
C23_Witness ==
  /\ lastOp.name = "handleMouseUp"
  /\ snappingEnabled
  /\ Len(items) = 2
  /\ items[1].x = 12
  /\ items[2].x = 0
  /\ selectedItemId = items[2].id
  /\ At(history, historyIndex) = items
  /\ At(history, historyIndex - 1)[2].x = 50

\* C24 as stated: in a drag frame with snapping on, a candidate x within the
\* threshold of another item's x leaves the dragged item at exactly that
\* item's x, and a pointerUp right after the frame commits that position.
C24_ItemSnap ==
  [][/\ SnapFrame =>
          LET o == Others(items, selectedItemId)
          IN \A k \in 1..Len(o) :
               Abs(dragFrame'.x - o[k].x) < SNAP_THRESHOLD => DraggedAfter.x = o[k].x
     /\ FrameIsCommitted]_vars

\* C24 amended: the same, when the candidate x is not within the threshold
\* of the canvas origin and every further item's x is either equal to that
\* item's x or at least the threshold away from both the candidate and that
\* item's x.
C24_ItemSnapWhenOnlyTarget ==
  [][/\ SnapFrame =>
          LET o == Others(items, selectedItemId)
              c == dragFrame'.x
          IN \A k \in 1..Len(o) :
               (/\ Abs(c - o[k].x) < SNAP_THRESHOLD
                /\ Abs(c) >= SNAP_THRESHOLD
                /\ \A j \in 1..Len(o) :
                     \/ o[j].x = o[k].x
                     \/ (Abs(c - o[j].x) >= SNAP_THRESHOLD /\ Abs(o[k].x - o[j].x) >= SNAP_THRESHOLD))
               => DraggedAfter.x = o[k].x
     /\ FrameIsCommitted]_vars

\* the second of two images was dragged to the first one's x, 12, and the
\* drag was committed
C24_Witness ==
  /\ lastOp.name = "handleMouseUp"
  /\ Len(items) = 2
  /\ items[1].x = 12
  /\ items[2].x = 12
  /\ selectedItemId = items[2].id
  /\ At(history, historyIndex) = items
  /\ At(history, historyIndex - 1)[1].x = 12

\* the x and y snap targets of a drag of the item with the given id, in
\* evaluation order: the canvas origin, then the other items in scene order
XTargets(its, id) == LET o == Others(its, id) IN <<0>> \o [k \in 1..Len(o) |-> o[k].x]
YTargets(its, id) == LET o == Others(its, id) IN <<0>> \o [k \in 1..Len(o) |-> o[k].y]

\* the last target within the threshold of the raw candidate c, or c
LastWithin(targets, c) ==
  LET hits == {i \in 1..Len(targets) : Abs(c - targets[i]) < SNAP_THRESHOLD}
  IN IF hits = {} THEN c
     ELSE targets[CHOOSE i \in hits : \A j \in hits : j <= i]

\* the candidate c moved to each target in turn that is within the
\* threshold of the candidate as moved so far
RECURSIVE MovedThrough(_, _)
MovedThrough(targets, c) ==
  IF targets = <<>> THEN c
  ELSE MovedThrough(Tail(targets),
                    IF Abs(c - Head(targets)) < SNAP_THRESHOLD THEN Head(targets) ELSE c)

\* C25 as stated: in a drag frame with snapping on, the dragged item is left,
\* on each axis, at the last target within the threshold of the raw
\* candidate, or at the raw candidate when there is none.
C25_SnapIsLastTargetOfRaw ==
  [][SnapFrame =>
        /\ DraggedAfter.x = LastWithin(XTargets(items, selectedItemId), dragFrame'.x)
        /\ DraggedAfter.y = LastWithin(YTargets(items, selectedItemId), dragFrame'.y)]_vars

\* C25 amended: on each axis the dragged item is left at the candidate moved
\* through the targets in evaluation order, each target being tested against
\* the candidate as moved so far, and every other item is as it was.
C25_SnapIsMovedThroughTargets ==
  [][SnapFrame =>
        /\ DraggedAfter.x = MovedThrough(XTargets(items, selectedItemId), dragFrame'.x)
        /\ DraggedAfter.y = MovedThrough(YTargets(items, selectedItemId), dragFrame'.y)
        /\ Len(items') = Len(items)
        /\ \A k \in 1..Len(items) : items[k].id # selectedItemId => items'[k] = items[k]]_vars

\* a drag frame with the candidate x at 5, another item being at x = 5:
\* the dragged item went to the origin and from there to the other item
C25_Witness ==
  /\ lastOp.name = "handleMouseMove"
  /\ snappingEnabled
  /\ dragFrame.on /\ dragFrame.x = 5
  /\ Len(items) = 2
  /\ selectedItemId = items[2].id
  /\ items[1].x = 5 /\ items[2].x = 5
  /\ Len(snapGuides) >= 2
  /\ snapGuides[1] = [type |-> "x", pos |-> 0]
  /\ snapGuides[2] = [type |-> "x", pos |-> 5]

\* C26: whenever no drag is in progress the guide list is empty.
C26_NoGuidesUnlessDragging == ~isDragging => snapGuides = <<>>

\* a drag that showed guides was ended by a pointerUp: the dragged item is
\* where another item is and no guide is left
C26_Witness ==
  /\ lastOp.name = "handleMouseUp"
  /\ ~isDragging
  /\ snapGuides = <<>>
  /\ Len(items) = 2
  /\ items[1].x = items[2].x
  /\ items[1].x # 50

\* ------------------------------------------------------------ the scene
\* the ids of the items of a scene
IdsOf(its) == {its[k].id : k \in 1..Len(its)}

UniqueIds(its) == \A j, k \in 1..Len(its) : its[j].id = its[k].id => j = k

C29_ImportActsOnCurrentState ==
  [][\A k \in 1..Len(pendingReads) :
        (/\ lastOp'.name = "readerOnload"
         /\ pendingReads' = RemovedAt(pendingReads, k)
         /\ pendingReads[k] # Render)
        => /\ \A j \in 1..Len(items) : HasItem(items', items[j].id)
           /\ Len(history') > historyIndex
           /\ SubSeq(history', 1, historyIndex + 1) = SubSeq(history, 1, historyIndex + 1)]_vars

\* C30: a selected id is the id of an item of the live scene.
C30_SelectionInScene == selectedItemId # NULL => HasItem(items, selectedItemId)

\* ==================================================================
\* Properties: the interaction states
\* ==================================================================
\* C31: whenever a crop target is set it is the selected id and the id of an
\* image item of the live scene.
C31_CropTargetIsSelectedImage ==
  cropModeItem # NULL
    => /\ cropModeItem = selectedItemId
       /\ \E k \in 1..Len(items) : items[k].id = cropModeItem /\ items[k].type = "image"

\* C32: the drag flag is never set while a crop target is set.
C32_DragExcludesCrop == ~(isDragging /\ cropModeItem # NULL)

\* C33: between a pointer down on an item and the next pointer up, a
\* handleMouseMove changes at most the x and y of that item: it keeps the
\* number and order of the items, every field of every other item, and
\* every other field of that item.
C33_MoveChangesGrabbedItemOnly ==
  [][(dragItem # NULL /\ lastOp'.name = "handleMouseMove")
       => /\ Len(items') = Len(items)
          /\ \A k \in 1..Len(items) :
               IF items[k].id = dragItem
               THEN \A f \in Fields \ {"x", "y"} : items'[k][f] = items[k][f]
               ELSE items'[k] = items[k]]_vars

\* C34: a step that leaves the live items as they were leaves the history
\* and the cursor as they were: it appends no snapshot and discards no
\* entry after the cursor.
C34_NoCommitWithoutChange ==
  [][items' = items => (history' = history /\ historyIndex' = historyIndex)]_vars

\* ==================================================================
\* Properties: the drag frame
\* ==================================================================
\* the step is a drag frame that writes to an item of the scene
WritingFrame == dragFrame'.on /\ HasItem(items, selectedItemId)

\* the guides of one axis, in the order they were recorded
GuidesOf(guides, axis) == SelectSeq(guides, LAMBDA g : g.type = axis)

\* C35 as stated: on each axis the coordinate a drag frame writes differs
\* from the raw candidate by less than the threshold.
C35_SnapMovesLessThanThreshold ==
  [][WritingFrame =>
        /\ Abs(DraggedAfter.x - dragFrame'.x) < SNAP_THRESHOLD
        /\ Abs(DraggedAfter.y - dragFrame'.y) < SNAP_THRESHOLD]_vars

\* the distance d is below the threshold for each of n snaps, and 0 for none
WithinSnaps(d, n) == IF n = 0 THEN d = 0 ELSE d < n * SNAP_THRESHOLD

\* C35 amended: on each axis the coordinate a drag frame writes differs from
\* the raw candidate by less than the threshold times the number of guides
\* recorded for that axis in that frame, and not at all when none was
\* recorded.
C35_SnapMovesLessThanThresholdPerGuide ==
  [][WritingFrame =>
        /\ WithinSnaps(Abs(DraggedAfter.x - dragFrame'.x), Len(GuidesOf(snapGuides', "x")))
        /\ WithinSnaps(Abs(DraggedAfter.y - dragFrame'.y), Len(GuidesOf(snapGuides', "y")))]_vars

\* a drag frame with the candidate x at -5 left the dragged item at x = 5,
\* having passed through the canvas origin on its way to an item at 5
C35_Witness ==
  /\ lastOp.name = "handleMouseMove"
  /\ dragFrame.on /\ dragFrame.x = 0 - 5
  /\ HasItem(items, selectedItemId)
  /\ FindItem(items, selectedItemId).x = 5
  /\ GuidesOf(snapGuides, "x") = <<[type |-> "x", pos |-> 0], [type |-> "x", pos |-> 5]>>

\* C38: a drag frame with snapping off writes the raw candidate to the
\* dragged item on both axes and leaves the guide list empty.
C38_NoSnapWhenDisabled ==
  [][(dragFrame'.on /\ ~snappingEnabled)
       => /\ snapGuides' = <<>>
          /\ HasItem(items, selectedItemId)
               => (DraggedAfter.x = dragFrame'.x /\ DraggedAfter.y = dragFrame'.y)]_vars

\* with snapping off, an item was dragged to (5, 5), within the threshold of
\* the canvas origin and of another item that is at the origin: it is at
\* (5, 5) and there is no guide
C38_Witness ==
  /\ lastOp.name = "handleMouseMove"
  /\ ~snappingEnabled
  /\ dragFrame = [on |-> TRUE, x |-> 5, y |-> 5]
  /\ snapGuides = <<>>
  /\ HasItem(items, selectedItemId)
  /\ FindItem(items, selectedItemId).x = 5
  /\ FindItem(items, selectedItemId).y = 5
  /\ \E k \in 1..Len(items) : items[k].id # selectedItemId /\ items[k].x = 0 /\ items[k].y = 0

\* the coordinate the guides of one axis stand for: the position of the last
\* one, or the raw candidate c when there is none
Guided(guides, axis, c) ==
  LET g == GuidesOf(guides, axis)
  IN IF g = <<>> THEN c ELSE g[Len(g)].pos

\* C39: on each axis a drag frame writes the raw candidate when it recorded
\* no guide of that axis, and else the position of the last guide it
\* recorded for that axis.
C39_WrittenIsLastGuide ==
  [][WritingFrame =>
        /\ DraggedAfter.x = Guided(snapGuides', "x", dragFrame'.x)
        /\ DraggedAfter.y = Guided(snapGuides', "y", dragFrame'.y)]_vars

\* a drag frame with the candidate at (5, 50) and the only other item far
\* away on both axes: one guide, on the x axis at 0, the dragged item at
\* (0, 50)
C39_Witness ==
  /\ lastOp.name = "handleMouseMove"
  /\ dragFrame = [on |-> TRUE, x |-> 5, y |-> 50]
  /\ snapGuides = <<[type |-> "x", pos |-> 0]>>
  /\ HasItem(items, selectedItemId)
  /\ FindItem(items, selectedItemId).x = 0
  /\ FindItem(items, selectedItemId).y = 50
  /\ Len(items) = 2

\* ==================================================================
\* Properties: undo and redo, the history
\* ==================================================================
\* C36: a handleUndo or handleRedo that passes its guard moves the cursor by
\* one, shows the snapshot at the new cursor, leaves crop mode, and changes
\* nothing else: the history, the selected id, the drag flag and offset, the
\* guides, the crop working data and the snapping switch are as they were.
C36_UndoRedoFrame ==
  [][(lastOp'.name \in {"handleUndo", "handleRedo"} /\ lastOp'.fired)
       => /\ historyIndex' = (IF lastOp'.name = "handleUndo" THEN historyIndex - 1
                              ELSE historyIndex + 1)
          /\ items' = At(history, historyIndex')
          /\ cropModeItem' = NULL
          /\ UNCHANGED <<history, selectedItemId, isDragging, dragOffset, snappingEnabled,
                         snapGuides, cropToolType, cropRect, lassoPoints, pendingReads,
                         randomDraws>>]_vars

\* an undo ran in the middle of a drag, after a crop with the lasso tool:
\* the item is still selected and still being dragged
C36_Witness ==
  /\ lastOp.name = "handleUndo"
  /\ lastOp.fired
  /\ isDragging
  /\ selectedItemId # NULL
  /\ cropModeItem = NULL
  /\ cropToolType = "lasso"
  /\ historyIndex < Len(history) - 1

\* C37: the history is never empty and the cursor is the 0-based index of
\* one of its entries.
C37_CursorInHistory ==
  /\ Len(history) >= 1
  /\ historyIndex \in 0..(Len(history) - 1)

\* the onload of a file chosen before an add has just committed from the
\* values of that earlier render: the history is shorter than the number of
\* commits made and the cursor is on its last entry
C37_Witness ==
  /\ lastOp.name = "readerOnload"
  /\ randomDraws = 2
  /\ Len(history) = 2
  /\ historyIndex = 1

====
